---- MODULE Spec2Model ----
(***************************************************************************)
(* The ingestion ledger of src/libs/loader/file_integrity.py               *)
(* (SQLiteIntegrityChecker): the table ingestion_history, and the callers  *)
(* of should_skip, mark_success and mark_failed, each on a connection of   *)
(* its own (sqlite3.connect per call).                                     *)
(*                                                                         *)
(* A connection of Python's sqlite3 module runs a SELECT outside any       *)
(* transaction and opens one implicitly before an INSERT or UPDATE; the    *)
(* transaction ends at conn.commit().  A mark_* call is therefore four     *)
(* steps: take `now`, SELECT, write statement (takes the write lock of the *)
(* store), commit.                                                         *)
(***************************************************************************)
EXTENDS Integers, Sequences, FiniteSets, TLC

\* ---------------------------------------------------------------- bounds
MaxCalls == 3

\* ---------------------------------------------------------------- inputs
Callers == {"A", "B"}
Hashes == {"F1", "F2"}
Paths == {"a.pdf"}
NULL == "NULL"
Collections == {NULL, "docs"}
ErrorMsgs == {"e1", "e2"}

VARIABLES
    table,        \* ingestion_history as committed: a sequence of rows
    lock,         \* the set of callers holding the store's write lock: {} or {c}
    clock,        \* the wall clock, in readings of datetime.now(timezone.utc)
    calls,        \* number of calls started
    pc,           \* per caller: "idle", "select", "write", "commit"
    op,           \* per caller: the mark_* operation in progress, or "none"
    file_hash,    \* per caller: argument (kept after should_skip returns)
    file_path,    \* per caller: argument
    collection,   \* per caller: argument of mark_success
    error_msg,    \* per caller: argument of mark_failed
    now,          \* per caller: local `now`
    result,       \* per caller: local `result` of cursor.fetchone()
    txn,          \* per caller: the table as its open transaction sees it
    ret,          \* per caller: outcome of its last call
    history,      \* per hash: <<op, now>> of its committed mark_* calls, in commit order
    last          \* per hash: the arguments of its last committed mark_* call

ledgerVars == <<table, lock, clock, calls, pc, op, file_hash, file_path, collection,
                error_msg, now, result, txn, ret, history, last>>

\* compute_sha256: per run of the hasher
VARIABLES
    kind,         \* what the path is: "missing", "dir", "denied" or "file"
    content,      \* the bytes of the file
    hpc,          \* position in compute_sha256
    offset,       \* position of the open file `f`
    sha256_hash,  \* state of the hashlib.sha256() object
    hret          \* what compute_sha256 returned or raised

hasherVars == <<kind, content, hpc, offset, sha256_hash, hret>>

\* refinement of a batch of text units
VARIABLES
    units,            \* the batch: a sequence of text units
    use_enhancement,  \* whether the enhancement path is enabled
    idx,              \* number of units refined so far
    invocations,      \* per refined unit: what its enhancement invocation gave
    outcomes,         \* per refined unit: its Refinement Outcome
    enhanced_count,   \* counter of the batch
    fallback_count,   \* counter of the batch
    rpc               \* "running" or "done"

refinerVars == <<units, use_enhancement, idx, invocations, outcomes,
                 enhanced_count, fallback_count, rpc>>

\* the objects of src/core/types.py and the dicts they refer to
VARIABLES
    dicts,        \* the heap of metadata dicts: address -> (key -> value)
    objects,      \* the Document, Chunk and ChunkRecord objects constructed
    datas,        \* the dicts given by to_dict, as the caller holds them
    texc          \* the last operation on the types: its name, the exception it
                  \* raised, the object or data it was applied to (0: none),
                  \* and for a construction whether its keywords bound and the
                  \* keys of the metadata it was given

typesVars == <<dicts, objects, datas, texc>>

\* the provider factory of src/libs/llm/llm_factory.py
VARIABLES
    PROVIDERS,          \* LLMFactory._PROVIDERS: lowercased name -> class
    VISION_PROVIDERS,   \* LLMFactory._VISION_PROVIDERS: lowercased name -> class
    fcall               \* the last call of the factory and how it ended

factoryVars == <<PROVIDERS, VISION_PROVIDERS, fcall>>

\* one call of AzureVisionLLM.chat_with_image (src/libs/llm/azure_vision_llm.py)
VARIABLES
    vpc,                \* position of the call
    vtext,              \* its text argument
    vimage,             \* its image argument
    processed_image,    \* what preprocess_image returned, NULL before it returns
    vresponse,          \* what _call_api returned
    api_calls,          \* calls of _call_api made by this call
    vret                \* how the call ended

visionVars == <<vpc, vtext, vimage, processed_image, vresponse, api_calls, vret>>

vars == <<ledgerVars, hasherVars, refinerVars, typesVars, factoryVars, visionVars>>

\* ------------------------------------------------------------ the store
\* CREATE TABLE ingestion_history (file_hash TEXT PRIMARY KEY, ...)
Row(h, p, s, c, e, pa, ua) ==
    [file_hash |-> h, file_path |-> p, status |-> s, collection |-> c,
     error_msg |-> e, processed_at |-> pa, updated_at |-> ua]

Matching(t, h) == {i \in 1..Len(t) : t[i].file_hash = h}

Min(S) == CHOOSE x \in S : \A y \in S : x <= y

\* SELECT ... WHERE file_hash = ?  followed by cursor.fetchone():
\* <<>> stands for None, <<row>> for the first matching row.
FetchOne(t, h) ==
    IF Matching(t, h) = {} THEN <<>> ELSE <<t[Min(Matching(t, h))]>>

\* Faulty variant: the table declared without PRIMARY KEY.
PrimaryKeyViolated_NoKey(t, h) == FALSE

\* file_hash TEXT PRIMARY KEY: an INSERT of a present key is rejected
\* (sqlite3.IntegrityError).
PrimaryKeyViolated(t, h) == Matching(t, h) # {}

Insert(t, row) == Append(t, row)

\* Faulty variant: the update also resets processed_at, as a plain
\* INSERT OR REPLACE of the whole row would.
UpdateSuccess_ResetsProcessedAt(t, h, p, c, n) ==
    [i \in 1..Len(t) |->
        IF t[i].file_hash = h
        THEN [t[i] EXCEPT !.file_path = p, !.status = "success",
                          !.collection = c, !.error_msg = NULL,
                          !.processed_at = n, !.updated_at = n]
        ELSE t[i]]

\* Faulty variant: the WHERE clause left out, every row is updated.
UpdateSuccess_NoWhere(t, h, p, c, n) ==
    [i \in 1..Len(t) |->
        [t[i] EXCEPT !.file_path = p, !.status = "success",
                     !.collection = c, !.error_msg = NULL,
                     !.updated_at = n]]

\* Faulty variant: error_msg = NULL left out of the SET list.
UpdateSuccess_KeepsError(t, h, p, c, n) ==
    [i \in 1..Len(t) |->
        IF t[i].file_hash = h
        THEN [t[i] EXCEPT !.file_path = p, !.status = "success",
                          !.collection = c, !.updated_at = n]
        ELSE t[i]]

\* mark_success: UPDATE ... SET file_path, status='success', collection,
\* error_msg = NULL, updated_at WHERE file_hash = ?
UpdateSuccess(t, h, p, c, n) ==
    [i \in 1..Len(t) |->
        IF t[i].file_hash = h
        THEN [t[i] EXCEPT !.file_path = p, !.status = "success",
                          !.collection = c, !.error_msg = NULL,
                          !.updated_at = n]
        ELSE t[i]]

\* Faulty variant: a failure removes the entry so that the file is retried.
UpdateFailed_Deletes(t, h, p, e, n) ==
    SelectSeq(t, LAMBDA r : r.file_hash # h)

\* Faulty variant: status = 'failed' left out of the SET list.
UpdateFailed_KeepsStatus(t, h, p, e, n) ==
    [i \in 1..Len(t) |->
        IF t[i].file_hash = h
        THEN [t[i] EXCEPT !.file_path = p, !.error_msg = e, !.updated_at = n]
        ELSE t[i]]

\* Faulty variant: the WHERE clause left out, every row is updated.
UpdateFailed_NoWhere(t, h, p, e, n) ==
    [i \in 1..Len(t) |->
        [t[i] EXCEPT !.file_path = p, !.status = "failed",
                     !.error_msg = e, !.updated_at = n]]

\* Faulty variant: the update also resets processed_at.
UpdateFailed_ResetsProcessedAt(t, h, p, e, n) ==
    [i \in 1..Len(t) |->
        IF t[i].file_hash = h
        THEN [t[i] EXCEPT !.file_path = p, !.status = "failed",
                          !.error_msg = e, !.processed_at = n,
                          !.updated_at = n]
        ELSE t[i]]

\* mark_failed: UPDATE ... SET file_path, status='failed', error_msg,
\* updated_at WHERE file_hash = ?   (collection is not in the SET list)
UpdateFailed(t, h, p, e, n) ==
    [i \in 1..Len(t) |->
        IF t[i].file_hash = h
        THEN [t[i] EXCEPT !.file_path = p, !.status = "failed",
                          !.error_msg = e, !.updated_at = n]
        ELSE t[i]]

\* mark_success: INSERT ... VALUES (?, ?, 'success', ?, NULL, ?, ?)
SuccessRow(h, p, c, n) == Row(h, p, "success", c, NULL, n, n)

\* mark_failed: INSERT ... VALUES (?, ?, 'failed', NULL, ?, ?, ?)
FailedRow(h, p, e, n) == Row(h, p, "failed", NULL, e, n, n)

\* Faulty variant: any entry, whatever its status, is skipped.
should_skip_AnyEntry(t, h) == FetchOne(t, h) # <<>>

\* should_skip: result is None -> False, else result[0] == "success"
should_skip(t, h) ==
    IF FetchOne(t, h) = <<>> THEN FALSE ELSE FetchOne(t, h)[1].status = "success"

\* The row a call passes to INSERT, and the table its UPDATE leaves.
NewRow(c) ==
    IF op[c] = "mark_success"
    THEN SuccessRow(file_hash[c], file_path[c], collection[c], now[c])
    ELSE FailedRow(file_hash[c], file_path[c], error_msg[c], now[c])

Updated(c) ==
    IF op[c] = "mark_success"
    THEN UpdateSuccess(table, file_hash[c], file_path[c], collection[c], now[c])
    ELSE UpdateFailed(table, file_hash[c], file_path[c], error_msg[c], now[c])

\* The arguments of a call, as kept in `last` once it has committed.
NoCall == [op |-> "none", file_path |-> NULL, collection |-> NULL, error_msg |-> NULL]

CallRecord(c) ==
    [op |-> op[c], file_path |-> file_path[c], collection |-> collection[c],
     error_msg |-> error_msg[c]]

\* ---------------------------------------------------------------- Init
\* _ensure_database on a fresh db_path: the table exists and is empty.
LedgerInit ==
    /\ table = <<>>
    /\ lock = {}
    /\ clock = 0
    /\ calls = 0
    /\ pc = [c \in Callers |-> "idle"]
    /\ op = [c \in Callers |-> "none"]
    /\ file_hash = [c \in Callers |-> "F1"]
    /\ file_path = [c \in Callers |-> "a.pdf"]
    /\ collection = [c \in Callers |-> NULL]
    /\ error_msg = [c \in Callers |-> NULL]
    /\ now = [c \in Callers |-> 0]
    /\ result = [c \in Callers |-> <<>>]
    /\ txn = [c \in Callers |-> <<>>]
    /\ ret = [c \in Callers |-> "none"]
    /\ history = [h \in Hashes |-> <<>>]
    /\ last = [h \in Hashes |-> NoCall]

\* -------------------------------------------------------------- actions
\* should_skip(file_hash): one SELECT on a fresh connection.
ShouldSkip(c, h) ==
    /\ pc[c] = "idle"
    /\ calls < MaxCalls
    /\ calls' = calls + 1
    /\ file_hash' = [file_hash EXCEPT ![c] = h]
    /\ ret' = [ret EXCEPT ![c] = IF should_skip(table, h) THEN "True" ELSE "False"]
    /\ UNCHANGED <<table, lock, clock, pc, op, file_path, collection, error_msg,
                   now, result, txn, history, last>>
    /\ UNCHANGED <<hasherVars, refinerVars, typesVars, factoryVars, visionVars>>

\* now = datetime.now(timezone.utc) at line 260 / 314: the wall clock has
\* moved on since the previous reading.
ReadClock(c) ==
    /\ now' = [now EXCEPT ![c] = clock]
    /\ clock' = clock + 1

\* mark_success(file_hash, file_path, collection): now = datetime.now(...)
CallMarkSuccess(c, h, p, col) ==
    /\ pc[c] = "idle"
    /\ calls < MaxCalls
    /\ ReadClock(c)
    /\ calls' = calls + 1
    /\ op' = [op EXCEPT ![c] = "mark_success"]
    /\ file_hash' = [file_hash EXCEPT ![c] = h]
    /\ file_path' = [file_path EXCEPT ![c] = p]
    /\ collection' = [collection EXCEPT ![c] = col]
    /\ error_msg' = [error_msg EXCEPT ![c] = NULL]
    /\ result' = [result EXCEPT ![c] = <<>>]
    /\ ret' = [ret EXCEPT ![c] = "none"]
    /\ pc' = [pc EXCEPT ![c] = "select"]
    /\ UNCHANGED <<table, lock, txn, history, last>>
    /\ UNCHANGED <<hasherVars, refinerVars, typesVars, factoryVars, visionVars>>

\* mark_failed(file_hash, file_path, error_msg): now = datetime.now(...)
CallMarkFailed(c, h, p, e) ==
    /\ pc[c] = "idle"
    /\ calls < MaxCalls
    /\ ReadClock(c)
    /\ calls' = calls + 1
    /\ op' = [op EXCEPT ![c] = "mark_failed"]
    /\ file_hash' = [file_hash EXCEPT ![c] = h]
    /\ file_path' = [file_path EXCEPT ![c] = p]
    /\ collection' = [collection EXCEPT ![c] = NULL]
    /\ error_msg' = [error_msg EXCEPT ![c] = e]
    /\ result' = [result EXCEPT ![c] = <<>>]
    /\ ret' = [ret EXCEPT ![c] = "none"]
    /\ pc' = [pc EXCEPT ![c] = "select"]
    /\ UNCHANGED <<table, lock, txn, history, last>>
    /\ UNCHANGED <<hasherVars, refinerVars, typesVars, factoryVars, visionVars>>

\* SELECT processed_at ... ; result = cursor.fetchone()
\* (runs outside a transaction: it reads the committed table).
Select(c) ==
    /\ pc[c] = "select"
    /\ result' = [result EXCEPT ![c] =
                    IF FetchOne(table, file_hash[c]) = <<>> THEN <<>>
                    ELSE <<FetchOne(table, file_hash[c])[1].processed_at>>]
    /\ pc' = [pc EXCEPT ![c] = "write"]
    /\ UNCHANGED <<table, lock, clock, calls, op, file_hash, file_path,
                   collection, error_msg, now, txn, ret, history, last>>
    /\ UNCHANGED <<hasherVars, refinerVars, typesVars, factoryVars, visionVars>>

\* Return from a mark_* call: its locals go out of scope, its outcome stays.
Return(c, outcome) ==
    /\ ret' = [ret EXCEPT ![c] = outcome]
    /\ pc' = [pc EXCEPT ![c] = "idle"]
    /\ op' = [op EXCEPT ![c] = "none"]
    /\ file_hash' = [file_hash EXCEPT ![c] = "F1"]
    /\ file_path' = [file_path EXCEPT ![c] = "a.pdf"]
    /\ collection' = [collection EXCEPT ![c] = NULL]
    /\ error_msg' = [error_msg EXCEPT ![c] = NULL]
    /\ now' = [now EXCEPT ![c] = 0]
    /\ result' = [result EXCEPT ![c] = <<>>]

\* if result: UPDATE ...   (implicit BEGIN; the statement takes the write lock)
WriteUpdate(c) ==
    /\ pc[c] = "write"
    /\ lock = {}
    /\ result[c] # <<>>
    /\ lock' = {c}
    /\ txn' = [txn EXCEPT ![c] = Updated(c)]
    /\ pc' = [pc EXCEPT ![c] = "commit"]
    /\ UNCHANGED <<table, clock, calls, op, file_hash, file_path, collection,
                   error_msg, now, result, ret, history, last>>
    /\ UNCHANGED <<hasherVars, refinerVars, typesVars, factoryVars, visionVars>>

\* else: INSERT ...   accepted by the PRIMARY KEY constraint
WriteInsert(c) ==
    /\ pc[c] = "write"
    /\ lock = {}
    /\ result[c] = <<>>
    /\ ~PrimaryKeyViolated(table, file_hash[c])
    /\ lock' = {c}
    /\ txn' = [txn EXCEPT ![c] = Insert(table, NewRow(c))]
    /\ pc' = [pc EXCEPT ![c] = "commit"]
    /\ UNCHANGED <<table, clock, calls, op, file_hash, file_path, collection,
                   error_msg, now, result, ret, history, last>>
    /\ UNCHANGED <<hasherVars, refinerVars, typesVars, factoryVars, visionVars>>

\* else: INSERT ...   rejected: sqlite3.IntegrityError -> RuntimeError;
\* conn.close() in `finally` rolls the transaction back.
WriteInsertRejected(c) ==
    /\ pc[c] = "write"
    /\ lock = {}
    /\ result[c] = <<>>
    /\ PrimaryKeyViolated(table, file_hash[c])
    /\ Return(c, "RuntimeError: UNIQUE constraint failed")
    /\ UNCHANGED <<table, lock, clock, calls, txn, history, last>>
    /\ UNCHANGED <<hasherVars, refinerVars, typesVars, factoryVars, visionVars>>

\* The write lock is held by another connection until the busy timeout
\* expires: sqlite3.OperationalError -> RuntimeError.
WriteBusy(c) ==
    /\ pc[c] = "write"
    /\ lock # {}
    /\ c \notin lock
    /\ Return(c, "RuntimeError: database is locked")
    /\ UNCHANGED <<table, lock, clock, calls, txn, history, last>>
    /\ UNCHANGED <<hasherVars, refinerVars, typesVars, factoryVars, visionVars>>

\* conn.commit(): the transaction's table becomes the committed one.
Commit(c) ==
    /\ pc[c] = "commit"
    /\ table' = txn[c]
    /\ lock' = {}
    /\ txn' = [txn EXCEPT ![c] = <<>>]
    /\ Return(c, "None")
    /\ history' = [history EXCEPT ![file_hash[c]] = Append(@, <<op[c], now[c]>>)]
    /\ last' = [last EXCEPT ![file_hash[c]] = CallRecord(c)]
    /\ UNCHANGED <<clock, calls>>
    /\ UNCHANGED <<hasherVars, refinerVars, typesVars, factoryVars, visionVars>>

\* Faulty variant: the connection is closed with conn.commit() in `finally`,
\* so the statement of a failed call is published.
Rollback_KeepsWrite(c) == IF pc[c] = "commit" THEN txn[c] ELSE table

\* finally: conn.close() on a connection with an open transaction rolls it
\* back: the committed table is what it was, the transaction's table is gone.
Rollback(c) == table

\* conn.commit() raises sqlite3.Error (the store rejects the write):
\* RuntimeError, and conn.close() rolls the transaction back.
CommitRejected(c) ==
    /\ pc[c] = "commit"
    /\ table' = Rollback(c)
    /\ lock' = {}
    /\ txn' = [txn EXCEPT ![c] = <<>>]
    /\ Return(c, "RuntimeError: commit failed")
    /\ UNCHANGED <<clock, calls, history, last>>
    /\ UNCHANGED <<hasherVars, refinerVars, typesVars, factoryVars, visionVars>>

\* The call is cancelled while in flight (the surrounding batch is aborted:
\* an exception that is not a sqlite3.Error passes the `except` clause):
\* `finally` closes the connection, which rolls back and frees the lock.
Abort(c) ==
    /\ pc[c] \in {"select", "write", "commit"}
    /\ table' = Rollback(c)
    /\ lock' = lock \ {c}
    /\ txn' = [txn EXCEPT ![c] = <<>>]
    /\ Return(c, "cancelled")
    /\ UNCHANGED <<clock, calls, history, last>>
    /\ UNCHANGED <<hasherVars, refinerVars, typesVars, factoryVars, visionVars>>

\* ------------------------------------------------- the content hasher
\* compute_sha256(file_path), SQLiteIntegrityChecker: two runs, on two paths.
MaxFileLen == 3
\* The size passed to f.read(): the code reads 65536 bytes at a time; the
\* files of the model are a few bytes long and so is the chunk.
ChunkSize == 2

Runs == {"x", "y"}
Bytes == {0, 1}
Contents == UNION {[1..n -> Bytes] : n \in 0..MaxFileLen}
Kinds == {"missing", "dir", "denied", "file"}
PathOf(r) == IF r = "x" THEN "a.pdf" ELSE "copy/b.pdf"

\* hashlib.sha256(): a streaming digest, idealised as free of collisions: the
\* state is the number whose base-3 digits are the bytes fed so far.
sha256_new == 0

RECURSIVE sha256_update(_, _)
sha256_update(st, chunk) ==
    IF chunk = <<>> THEN st
    ELSE sha256_update(st * (Cardinality(Bytes) + 1) + chunk[1] + 1, Tail(chunk))

hexdigest(st) == st

\* Faulty variant: no existence check before is_file().
path_exists_Unchecked(k) == TRUE

\* Path(file_path).exists()
path_exists(k) == k # "missing"

\* Path(file_path).is_file()
path_is_file(k) == k \in {"denied", "file"}

\* Faulty variant: the loop stops at the first chunk shorter than the buffer
\* without hashing it.
ReadChunk_FullOnly(bytes, off) ==
    IF off + ChunkSize <= Len(bytes)
    THEN SubSeq(bytes, off + 1, off + ChunkSize)
    ELSE <<>>

\* f.read(65536): the next bytes of the file, at most a chunk of them;
\* b"" at the end of the file.
ReadChunk(bytes, off) ==
    IF off + ChunkSize <= Len(bytes)
    THEN SubSeq(bytes, off + 1, off + ChunkSize)
    ELSE SubSeq(bytes, off + 1, Len(bytes))

NoDigest == 0 - 1
Returned(d) == [exc |-> "none", msg |-> "", value |-> d]
Raised(e, m) == [exc |-> e, msg |-> m, value |-> NoDigest]
NotCalled == [exc |-> "none", msg |-> "not called", value |-> NoDigest]

HasherIdle ==
    /\ kind = [r \in Runs |-> "missing"]
    /\ content = [r \in Runs |-> <<>>]
    /\ hpc = [r \in Runs |-> "idle"]
    /\ offset = [r \in Runs |-> 0]
    /\ sha256_hash = [r \in Runs |-> sha256_new]
    /\ hret = [r \in Runs |-> NotCalled]

\* compute_sha256 is called on any path; only a regular file has bytes to read.
HasherInit ==
    /\ kind \in [Runs -> Kinds]
    /\ content \in [Runs -> Contents]
    /\ \A r \in Runs : kind[r] # "file" => content[r] = <<>>
    /\ hpc = [r \in Runs |-> "exists"]
    /\ offset = [r \in Runs |-> 0]
    /\ sha256_hash = [r \in Runs |-> sha256_new]
    /\ hret = [r \in Runs |-> NotCalled]

HasherRaise(r, e, m) ==
    /\ hpc' = [hpc EXCEPT ![r] = "raised"]
    /\ hret' = [hret EXCEPT ![r] = Raised(e, m)]

\* if not path.exists(): raise FileNotFoundError
CheckExists(r) ==
    /\ hpc[r] = "exists"
    /\ IF path_exists(kind[r])
       THEN hpc' = [hpc EXCEPT ![r] = "is_file"] /\ UNCHANGED hret
       ELSE HasherRaise(r, "FileNotFoundError", "File not found")
    /\ UNCHANGED <<kind, content, offset, sha256_hash, ledgerVars, refinerVars, typesVars,
                   factoryVars, visionVars>>

\* if not path.is_file(): raise IOError
CheckIsFile(r) ==
    /\ hpc[r] = "is_file"
    /\ IF path_is_file(kind[r])
       THEN hpc' = [hpc EXCEPT ![r] = "open"] /\ UNCHANGED hret
       ELSE HasherRaise(r, "IOError", "Path is not a file")
    /\ UNCHANGED <<kind, content, offset, sha256_hash, ledgerVars, refinerVars, typesVars,
                   factoryVars, visionVars>>

\* sha256_hash = hashlib.sha256(); with open(file_path, "rb") as f:
\* an exception of open() is caught and raised again as IOError.
OpenFile(r) ==
    /\ hpc[r] = "open"
    /\ IF kind[r] = "file"
       THEN hpc' = [hpc EXCEPT ![r] = "read"] /\ UNCHANGED hret
       ELSE HasherRaise(r, "IOError", "Failed to read file")
    /\ sha256_hash' = [sha256_hash EXCEPT ![r] = sha256_new]
    /\ offset' = [offset EXCEPT ![r] = 0]
    /\ UNCHANGED <<kind, content, ledgerVars, refinerVars, typesVars,
                   factoryVars, visionVars>>

\* for chunk in iter(lambda: f.read(65536), b""): sha256_hash.update(chunk)
ReadAndUpdate(r) ==
    /\ hpc[r] = "read"
    /\ ReadChunk(content[r], offset[r]) # <<>>
    /\ sha256_hash' = [sha256_hash EXCEPT ![r] =
                         sha256_update(@, ReadChunk(content[r], offset[r]))]
    /\ offset' = [offset EXCEPT ![r] = @ + Len(ReadChunk(content[r], offset[r]))]
    /\ UNCHANGED <<kind, content, hpc, hret, ledgerVars, refinerVars, typesVars,
                   factoryVars, visionVars>>

\* f.read() returns b"": the loop ends; return sha256_hash.hexdigest()
ReadEnd(r) ==
    /\ hpc[r] = "read"
    /\ ReadChunk(content[r], offset[r]) = <<>>
    /\ hpc' = [hpc EXCEPT ![r] = "returned"]
    /\ hret' = [hret EXCEPT ![r] = Returned(hexdigest(sha256_hash[r]))]
    /\ UNCHANGED <<kind, content, offset, sha256_hash, ledgerVars, refinerVars, typesVars,
                   factoryVars, visionVars>>

\* f.read() raises: except Exception -> raise IOError
ReadFails(r) ==
    /\ hpc[r] = "read"
    /\ HasherRaise(r, "IOError", "Failed to read file")
    /\ UNCHANGED <<kind, content, offset, sha256_hash, ledgerVars, refinerVars, typesVars,
                   factoryVars, visionVars>>

HashNext ==
    \/ \E r \in Runs : CheckExists(r)
    \/ \E r \in Runs : CheckIsFile(r)
    \/ \E r \in Runs : OpenFile(r)
    \/ \E r \in Runs : ReadAndUpdate(r)
    \/ \E r \in Runs : ReadEnd(r)
    \/ \E r \in Runs : ReadFails(r)

\* ------------------------------------------------------- specifications
\* ------------------------------------------------------------ the refiner
\* The Refinement Strategy Selector (ChunkRefiner, imported by
\* src/ingestion/transform/__init__.py).  Its module is not among the source
\* files, so this part follows the design document, section 4.3, and the
\* observable behaviour the integration test relies on.
\*
\* A text is a sequence of tokens: "h" a heading, "w" body words, "ws" a
\* redundant run of whitespace, "sep" a decorative separator line, "cmt" an
\* inline markup comment, "ftr" a boilerplate footer line.
MaxBatch == 2
MinRetentionNum == 1
MinRetentionDen == 2

CleanText == <<"h", "w">>
NoisyText == <<"h", "ws", "sep", "cmt", "w", "ftr">>
BlankText == <<"ws">>
Texts == {CleanText, NoisyText, BlankText}
SourcePaths == {"a.pdf", "b.pdf"}
Units == [text : Texts, source_path : SourcePaths]
Outputs == {<<>>, <<"w">>, <<"h", "w", "w">>}

RECURSIVE Filter(_, _)
Filter(text, keep) ==
    IF text = <<>> THEN <<>>
    ELSE IF text[1] \in keep THEN <<text[1]>> \o Filter(Tail(text), keep)
    ELSE Filter(Tail(text), keep)

\* normalization collapses whitespace; a unit whose text is empty after it is
\* malformed
Normalize(text) == Filter(text, {"h", "w", "sep", "cmt", "ftr"})
WellFormed(u) == Normalize(u.text) # <<>>

\* the rule-based path: collapse whitespace, strip separators, comments and
\* footers, keep headings and paragraphs
RuleBasedRefine(text) == Filter(text, {"h", "w"})

\* what one call of the enhancement capability gives: text | error | timeout
NotInvoked == [kind |-> "none", message |-> "", text |-> <<>>]
InvocationError(m) == [kind |-> "error", message |-> m, text |-> <<>>]
InvocationTimeout == [kind |-> "timeout", message |-> "", text |-> <<>>]
InvocationText(t) == [kind |-> "text", message |-> "", text |-> t]
InvocationResults ==
    {InvocationError(m) : m \in ErrorMsgs} \cup {InvocationTimeout}
        \cup {InvocationText(t) : t \in Outputs}

ShouldInvoke_Always(enabled) == TRUE
ShouldInvoke(enabled) == enabled

\* the sanity checks on the enhancement's output
Retained(input, output) ==
    Len(output) * MinRetentionDen >= Len(input) * MinRetentionNum
Accepts_AnyText(input, r) == r.kind = "text"
Accepts(input, r) ==
    /\ r.kind = "text"
    /\ r.text # <<>>
    /\ Retained(input, r.text)

FailureReason_Blank(input, r) ==
    IF r.kind = "error" THEN <<"invocation error", r.message>> ELSE <<>>
FailureReason(input, r) ==
    CASE r.kind = "error" -> <<"invocation error", r.message>>
      [] r.kind = "timeout" -> <<"invocation timeout">>
      [] r.kind = "text" /\ r.text = <<>> -> <<"output empty">>
      [] OTHER -> <<"output below retention threshold">>

EnhancedOutcome(u, t) ==
    [unit |-> u, refined_text |-> t, strategy_used |-> "enhanced"]
FallbackOutcome(u, reason) ==
    [unit |-> u, refined_text |-> RuleBasedRefine(u.text),
     strategy_used |-> "fallback", fallback_reason |-> reason]

\* refine(unit, use_enhancement), given what the unit's invocation gave
Refine(u, r) ==
    IF r.kind = "none" THEN FallbackOutcome(u, <<"enhancement disabled">>)
    ELSE IF Accepts(u.text, r) THEN EnhancedOutcome(u, r.text)
    ELSE FallbackOutcome(u, FailureReason(u.text, r))

\* the invocation result unit i is decided on
OwnResult_SharedError(invs, i) ==
    IF \E j \in 1..i : invs[j].kind \in {"error", "timeout"}
    THEN invs[Min({j \in 1..i : invs[j].kind \in {"error", "timeout"}})]
    ELSE invs[i]
OwnResult(invs, i) == invs[i]

Count_Always(n, o, tag) == n + 1
Count(n, o, tag) == IF o.strategy_used = tag THEN n + 1 ELSE n

Batches == UNION {[1..n -> Units] : n \in 0..MaxBatch}

RefinerInit ==
    /\ units \in Batches
    /\ use_enhancement \in BOOLEAN
    /\ idx = 0
    /\ invocations = <<>>
    /\ outcomes = <<>>
    /\ enhanced_count = 0
    /\ fallback_count = 0
    /\ rpc = "running"

\* one unit of the batch: its invocation gave r
RefineStep(r) ==
    LET i == idx + 1
        invs == Append(invocations, r)
        o == Refine(units[i], OwnResult(invs, i))
    IN /\ invocations' = invs
       /\ outcomes' = Append(outcomes, o)
       /\ enhanced_count' = Count(enhanced_count, o, "enhanced")
       /\ fallback_count' = Count(fallback_count, o, "fallback")
       /\ idx' = i
       /\ UNCHANGED <<units, use_enhancement, rpc>>

NextUnitIs(wellformed) ==
    /\ rpc = "running"
    /\ idx < Len(units)
    /\ WellFormed(units[idx + 1]) = wellformed

RefineDisabled ==
    /\ NextUnitIs(TRUE)
    /\ ~ShouldInvoke(use_enhancement)
    /\ RefineStep(NotInvoked)
    /\ UNCHANGED <<ledgerVars, hasherVars, typesVars, factoryVars, visionVars>>

RefineEnhanced(r) ==
    /\ NextUnitIs(TRUE)
    /\ ShouldInvoke(use_enhancement)
    /\ Accepts(units[idx + 1].text, r)
    /\ RefineStep(r)
    /\ UNCHANGED <<ledgerVars, hasherVars, typesVars, factoryVars, visionVars>>

RefineFallback(r) ==
    /\ NextUnitIs(TRUE)
    /\ ShouldInvoke(use_enhancement)
    /\ ~Accepts(units[idx + 1].text, r)
    /\ RefineStep(r)
    /\ UNCHANGED <<ledgerVars, hasherVars, typesVars, factoryVars, visionVars>>

\* a malformed unit is an error of the caller: the batch raises
RaiseMalformed ==
    /\ NextUnitIs(FALSE)
    /\ rpc' = "raised"
    /\ UNCHANGED <<units, use_enhancement, idx, invocations, outcomes,
                   enhanced_count, fallback_count>>
    /\ UNCHANGED <<ledgerVars, hasherVars, typesVars, factoryVars, visionVars>>

\* the batch returns its outcomes and exposes its counters
ReturnBatch ==
    /\ rpc = "running"
    /\ idx = Len(units)
    /\ rpc' = "done"
    /\ UNCHANGED <<units, use_enhancement, idx, invocations, outcomes,
                   enhanced_count, fallback_count>>
    /\ UNCHANGED <<ledgerVars, hasherVars, typesVars, factoryVars, visionVars>>

RefineNext ==
    \/ RefineDisabled
    \/ \E r \in InvocationResults : RefineEnhanced(r)
    \/ \E r \in InvocationResults : RefineFallback(r)
    \/ RaiseMalformed
    \/ ReturnBatch

RefinerIdle ==
    /\ units = <<>>
    /\ use_enhancement = FALSE
    /\ idx = 0
    /\ invocations = <<>>
    /\ outcomes = <<>>
    /\ enhanced_count = 0
    /\ fallback_count = 0
    /\ rpc = "idle"

TypesIdle ==
    /\ dicts = <<>>
    /\ objects = <<>>
    /\ datas = <<>>
    /\ texc = [op |-> "none", exc |-> "none", arg |-> 0, bound |-> TRUE, keys |-> {}]

\* the registries as the module leaves them after loading
\* (_register_vision_providers), and no call made
FactoryIdle ==
    /\ PROVIDERS = <<>>
    /\ VISION_PROVIDERS = [k \in {"azure"} |-> "AzureVisionLLM"]
    /\ fcall = [op |-> "none", exc |-> "none", value |-> "none", called |-> "none",
                listed |-> <<>>, llm |-> "none", vision_llm |-> "none",
                name |-> "none", class |-> "none"]

VisionIdle ==
    /\ vpc = "idle"
    /\ vtext = NULL
    /\ vimage = NULL
    /\ processed_image = NULL
    /\ vresponse = [shape |-> "none", model |-> NULL, usage |-> NULL]
    /\ api_calls = 0
    /\ vret = [exc |-> "none", at |-> "none",
               value |-> [content |-> NULL, model |-> NULL, usage |-> NULL,
                          raw_response |-> [shape |-> "none", model |-> NULL,
                                            usage |-> NULL]]]

Init == LedgerInit /\ HasherIdle /\ RefinerIdle /\ TypesIdle /\ FactoryIdle /\ VisionIdle

Next ==
    \/ \E c \in Callers, h \in Hashes : ShouldSkip(c, h)
    \/ \E c \in Callers, h \in Hashes, p \in Paths, col \in Collections :
          CallMarkSuccess(c, h, p, col)
    \/ \E c \in Callers, h \in Hashes, p \in Paths, e \in ErrorMsgs :
          CallMarkFailed(c, h, p, e)
    \/ \E c \in Callers : Select(c)
    \/ \E c \in Callers : WriteUpdate(c)
    \/ \E c \in Callers : WriteInsert(c)
    \/ \E c \in Callers : WriteInsertRejected(c)
    \/ \E c \in Callers : WriteBusy(c)
    \/ \E c \in Callers : Commit(c)
    \/ \E c \in Callers : CommitRejected(c)
    \/ \E c \in Callers : Abort(c)

Spec == Init /\ [][Next]_vars

HashInit == LedgerInit /\ HasherInit /\ RefinerIdle /\ TypesIdle /\ FactoryIdle /\ VisionIdle

HashSpec == HashInit /\ [][HashNext]_vars

RefineInit == LedgerInit /\ HasherIdle /\ RefinerInit /\ TypesIdle /\ FactoryIdle /\ VisionIdle

RefineSpec == RefineInit /\ [][RefineNext]_vars

\* ------------------------------------------------------------ the core types
\* src/core/types.py: the dataclasses Document, Chunk and ChunkRecord.  A
\* metadata dict is an object of its own on the heap `dicts`; a dataclass
\* object and a to_dict result hold its address, so two of them can share one
\* dict.  Metadata values are strings here: what a copy does to a nested list
\* or dict (asdict copies it, dict.copy() shares it) is not modelled.
MaxDicts == 2

\* the names the caller binds the objects it constructs to
Names == {"x", "y"}

Classes == {"Document", "Chunk", "ChunkRecord"}
Fields(cls) ==
    CASE cls = "Document" -> {"id", "text", "metadata"}
      [] cls = "Chunk" -> {"id", "text", "metadata",
                           "start_offset", "end_offset", "source_ref"}
      [] cls = "ChunkRecord" -> {"id", "text", "metadata",
                                 "dense_vector", "sparse_vector"}
Required == {"id", "text"}

None == <<>>
Some(v) == <<v>>

Ids == {"chunk_123"}
TextInputs == {CleanText, BlankText}
MetaKeys == {"source_path", "key"}
MetaValues(k) ==
    IF k = "source_path" THEN {"data/test.pdf"} ELSE {"original", "modified"}
EmptyDict == [k \in {} |-> ""]
MetadataLiterals ==
    UNION {{m \in [ks -> {"data/test.pdf", "original", "modified"}] :
                \A k \in ks : m[k] \in MetaValues(k)} : ks \in SUBSET MetaKeys}

\* the optional arguments of a constructor call, all given
Options(cls) ==
    CASE cls = "Document" -> {EmptyDict}
      [] cls = "Chunk" ->
            {[start_offset |-> Some(0), end_offset |-> Some(100),
              source_ref |-> Some("doc_123")]}
      [] cls = "ChunkRecord" ->
            {[dense_vector |-> Some(<<1, 2, 3>>),
              sparse_vector |-> Some([word |-> 5])]}
\* a blank text is tried on the Chunk, the unit of text
TextsFor(cls) == IF cls = "Chunk" THEN TextInputs ELSE {CleanText}

\* the __post_init__ check: "source_path" in self.metadata
HasSourcePath_Unchecked(m) == TRUE
HasSourcePath(m) == "source_path" \in DOMAIN m

\* the keywords of a call bind to the fields of the class
Binds(cls, kw) == DOMAIN kw \subseteq Fields(cls) /\ Required \subseteq DOMAIN kw

Did(method, on) ==
    [op |-> method, exc |-> "none", arg |-> on, bound |-> TRUE, keys |-> {}]

Raises(e) == [exc |-> e, dicts |-> dicts, fields |-> EmptyDict]

\* cls(**kw) on the heap ds: binds the keywords to the fields (TypeError for a
\* keyword that is no field or a required field left out), fills the
\* defaults (metadata: a new empty dict, the others None), then __post_init__
New(cls, kw, ds) ==
    IF ~Binds(cls, kw)
    THEN Raises("TypeError")
    ELSE LET given == "metadata" \in DOMAIN kw
             ds1 == IF given THEN ds ELSE Append(ds, EmptyDict)
             md == IF given THEN kw["metadata"] ELSE Len(ds) + 1
             fields == [f \in Fields(cls) |->
                          IF f = "metadata" THEN md
                          ELSE IF f \in DOMAIN kw THEN kw[f] ELSE None]
         IN IF HasSourcePath(ds1[md])
            THEN [exc |-> "none", dicts |-> ds1, fields |-> fields]
            ELSE Raises("ValueError")

\* dataclasses.asdict(self): every field, the metadata dict copied
asdict_NoOptionals(o, copy) ==
    [f \in {"id", "text", "metadata"} |->
        IF f = "metadata" THEN copy ELSE o.fields[f]]
asdict(o, copy) ==
    [f \in DOMAIN o.fields |-> IF f = "metadata" THEN copy ELSE o.fields[f]]

\* chunk.metadata.copy(): the address the record's metadata gets, the copy
\* being put at the end of the heap
CopyAddress_Shared(ds, a) == a
CopyAddress(ds, a) == Len(ds) + 1

Finish(method, on, cls, kw, ds) ==
    LET r == New(cls, kw, ds) IN
    /\ texc' = [op |-> method, exc |-> r.exc, arg |-> on,
                bound |-> Binds(cls, kw),
                keys |-> IF "metadata" \in DOMAIN kw
                         THEN DOMAIN ds[kw["metadata"]] ELSE {}]
    /\ IF r.exc = "none"
       THEN /\ Len(objects) < Cardinality(Names)
            /\ Len(r.dicts) <= MaxDicts
            /\ dicts' = r.dicts
            /\ objects' = Append(objects, [cls |-> cls, fields |-> r.fields])
       ELSE UNCHANGED <<dicts, objects>>
    /\ UNCHANGED datas

\* cls(id=..., text=..., metadata={...}, ...)
Construct(cls, id, text, m, opts) ==
    LET kw == [f \in Fields(cls) |->
                 CASE f = "id" -> id
                   [] f = "text" -> text
                   [] f = "metadata" -> Len(dicts) + 1
                   [] OTHER -> opts[f]]
    IN /\ Finish("__init__", 0, cls, kw, Append(dicts, m))
       /\ UNCHANGED <<ledgerVars, hasherVars, refinerVars, factoryVars, visionVars>>

\* data = x.to_dict(); the caller holds one such dict
ToDict(i) ==
    /\ i \in 1..Len(objects)
    /\ datas = <<>>
    /\ Len(dicts) < MaxDicts
    /\ dicts' = Append(dicts, dicts[objects[i].fields["metadata"]])
    /\ datas' = Append(datas, asdict(objects[i], Len(dicts) + 1))
    /\ texc' = Did("to_dict", i)
    /\ UNCHANGED objects
    /\ UNCHANGED <<ledgerVars, hasherVars, refinerVars, factoryVars, visionVars>>

\* cls.from_dict(data)
FromDict(cls, d) ==
    /\ d \in 1..Len(datas)
    /\ Finish("from_dict", d, cls, datas[d], dicts)
    /\ UNCHANGED <<ledgerVars, hasherVars, refinerVars, factoryVars, visionVars>>

\* ChunkRecord.from_chunk(chunk, dense_vector, sparse_vector)
FromChunk(i, opts) ==
    /\ i \in 1..Len(objects)
    /\ objects[i].cls = "Chunk"
    /\ LET chunk == objects[i].fields
           a == CopyAddress(dicts, chunk["metadata"])
           ds == IF a > Len(dicts)
                 THEN Append(dicts, dicts[chunk["metadata"]]) ELSE dicts
           kw == [f \in Fields("ChunkRecord") |->
                    CASE f = "id" -> chunk["id"]
                      [] f = "text" -> chunk["text"]
                      [] f = "metadata" -> a
                      [] OTHER -> opts[f]]
       IN Finish("from_chunk", i, "ChunkRecord", kw, ds)
    /\ UNCHANGED <<ledgerVars, hasherVars, refinerVars, factoryVars, visionVars>>

\* the caller's own statements on the dicts it can reach
\* x.metadata[k] = v
SetKey(a, k, v) ==
    /\ a \in 1..Len(dicts)
    /\ dicts' = [dicts EXCEPT ![a] =
                   [j \in DOMAIN dicts[a] \cup {k} |->
                       IF j = k THEN v ELSE dicts[a][j]]]
    /\ dicts' # dicts
    /\ texc' = Did("caller", 0)
    /\ UNCHANGED <<objects, datas>>
    /\ UNCHANGED <<ledgerVars, hasherVars, refinerVars, factoryVars, visionVars>>

\* del x.metadata[k]
DelKey(a, k) ==
    /\ a \in 1..Len(dicts)
    /\ k \in DOMAIN dicts[a]
    /\ dicts' = [dicts EXCEPT ![a] =
                   [j \in DOMAIN dicts[a] \ {k} |-> dicts[a][j]]]
    /\ texc' = Did("caller", 0)
    /\ UNCHANGED <<objects, datas>>
    /\ UNCHANGED <<ledgerVars, hasherVars, refinerVars, factoryVars, visionVars>>

\* del data[f]
DropField(d, f) ==
    /\ d \in 1..Len(datas)
    /\ f \in DOMAIN datas[d]
    /\ datas' = [datas EXCEPT ![d] =
                   [g \in DOMAIN datas[d] \ {f} |-> datas[d][g]]]
    /\ texc' = Did("caller", 0)
    /\ UNCHANGED <<dicts, objects>>
    /\ UNCHANGED <<ledgerVars, hasherVars, refinerVars, factoryVars, visionVars>>

TypesNext ==
    \/ \E cls \in Classes, id \in Ids, m \in MetadataLiterals :
          \E text \in TextsFor(cls), opts \in Options(cls) :
              Construct(cls, id, text, m, opts)
    \/ \E i \in 1..Len(objects) : ToDict(i)
    \/ \E cls \in Classes, d \in 1..Len(datas) : FromDict(cls, d)
    \/ \E i \in 1..Len(objects), opts \in Options("ChunkRecord") :
          FromChunk(i, opts)
    \/ \E a \in 1..Len(dicts), k \in MetaKeys :
          \E v \in MetaValues(k) : SetKey(a, k, v)
    \/ \E a \in 1..Len(dicts), k \in MetaKeys : DelKey(a, k)
    \/ \E d \in 1..Len(datas) : DropField(d, "metadata")

TypesSpec == Init /\ [][TypesNext]_vars

\* ------------------------------------------------------------ the provider factory
\* LLMFactory of src/libs/llm/llm_factory.py: two class-level registries and
\* the calls on them.  A name is a string; its spellings differ in case only.

Spellings == [openai |-> {"openai", "OpenAI"}, azure |-> {"azure"}]

ProviderNames == UNION {Spellings[k] : k \in DOMAIN Spellings}

\* str.lower(): the all-lowercase spelling of the name
lower(name) == CHOOSE k \in DOMAIN Spellings : name \in Spellings[k]

\* sorted() on lowercased names: "azure" comes before "openai"
sorted(keys) == SelectSeq(<<"azure", "openai">>, LAMBDA k : k \in keys)

BaseLLM == {"OpenAILLM", "OllamaLLM"}

BaseVisionLLM == {"AzureVisionLLM", "OllamaVisionLLM"}

ProviderClasses == BaseLLM \cup BaseVisionLLM \cup {"object"}

issubclass(class, base) == class \in base

\* an attribute of the settings that is not there
Missing == "<missing>"

\* settings.llm.provider and settings.vision_llm.provider: absent, None or a name
ProviderSettings == {Missing, NULL} \cup ProviderNames

SettingsSet == [llm : ProviderSettings, vision_llm : ProviderSettings]

\* what a constructor of a provider class does: returns, or raises
Constructors == {"ok", "ValueError"}

\* value.lower() of a configured value: None has no lower()
Lowered(value) ==
    IF value \in ProviderNames
    THEN [exc |-> "none", name |-> lower(value)]
    ELSE [exc |-> "AttributeError", name |-> NULL]

VisionProviderName_LLMFirst(settings) ==
    IF settings.llm # Missing THEN Lowered(settings.llm)
    ELSE IF settings.vision_llm # Missing THEN Lowered(settings.vision_llm)
    ELSE [exc |-> "AttributeError", name |-> NULL]

VisionProviderName(settings) ==
    IF settings.vision_llm # Missing THEN Lowered(settings.vision_llm)
    ELSE IF settings.llm # Missing THEN Lowered(settings.llm)
    ELSE [exc |-> "AttributeError", name |-> NULL]

Outcome(exc, called, value) == [exc |-> exc, called |-> called, value |-> value]

\* lookup in a registry and instantiation, shared by create and create_vision_llm
Instantiate(registry, resolved, constructor) ==
    IF resolved.exc = "AttributeError" THEN Outcome("ValueError", "none", "none")
    ELSE IF resolved.name \notin DOMAIN registry
         THEN Outcome("ValueError", "none", "none")
    ELSE IF constructor # "ok"
         THEN Outcome("RuntimeError", registry[resolved.name], "none")
    ELSE Outcome("none", registry[resolved.name], registry[resolved.name])

create(registry, settings, constructor) ==
    Instantiate(registry, Lowered(settings.llm), constructor)

create_vision_llm(registry, settings, constructor) ==
    Instantiate(registry, VisionProviderName(settings), constructor)

Registered_CaseSensitive(registry, name, class) ==
    [k \in DOMAIN registry \cup {name} |-> IF k = name THEN class ELSE registry[k]]

\* registry[name.lower()] = class
Registered(registry, name, class) ==
    [k \in DOMAIN registry \cup {lower(name)} |->
        IF k = lower(name) THEN class ELSE registry[k]]

Call(method) ==
    [op |-> method, exc |-> "none", value |-> "none", called |-> "none",
     listed |-> <<>>, llm |-> "none", vision_llm |-> "none",
     name |-> "none", class |-> "none"]

RegisterProvider(name, class) ==
    /\ IF ~issubclass(class, BaseLLM)
       THEN /\ fcall' = [Call("register_provider") EXCEPT
                           !.exc = "ValueError", !.name = name, !.class = class]
            /\ UNCHANGED PROVIDERS
       ELSE /\ PROVIDERS' = Registered(PROVIDERS, name, class)
            /\ fcall' = [Call("register_provider") EXCEPT
                           !.name = name, !.class = class]
    /\ UNCHANGED VISION_PROVIDERS
    /\ UNCHANGED <<ledgerVars, hasherVars, refinerVars, typesVars, visionVars>>

RegisterVisionProvider(name, class) ==
    /\ IF ~issubclass(class, BaseVisionLLM)
       THEN /\ fcall' = [Call("register_vision_provider") EXCEPT
                           !.exc = "ValueError", !.name = name, !.class = class]
            /\ UNCHANGED VISION_PROVIDERS
       ELSE /\ VISION_PROVIDERS' = Registered(VISION_PROVIDERS, name, class)
            /\ fcall' = [Call("register_vision_provider") EXCEPT
                           !.name = name, !.class = class]
    /\ UNCHANGED PROVIDERS
    /\ UNCHANGED <<ledgerVars, hasherVars, refinerVars, typesVars, visionVars>>

Ended(method, settings, r) ==
    [Call(method) EXCEPT !.exc = r.exc, !.called = r.called, !.value = r.value,
                         !.llm = settings.llm, !.vision_llm = settings.vision_llm]

Create(settings, constructor) ==
    /\ fcall' = Ended("create", settings, create(PROVIDERS, settings, constructor))
    /\ UNCHANGED <<PROVIDERS, VISION_PROVIDERS>>
    /\ UNCHANGED <<ledgerVars, hasherVars, refinerVars, typesVars, visionVars>>

CreateVisionLLM(settings, constructor) ==
    /\ fcall' = Ended("create_vision_llm", settings,
                         create_vision_llm(VISION_PROVIDERS, settings, constructor))
    /\ UNCHANGED <<PROVIDERS, VISION_PROVIDERS>>
    /\ UNCHANGED <<ledgerVars, hasherVars, refinerVars, typesVars, visionVars>>

ListProviders ==
    /\ fcall' = [Call("list_providers") EXCEPT !.listed = sorted(DOMAIN PROVIDERS)]
    /\ UNCHANGED <<PROVIDERS, VISION_PROVIDERS>>
    /\ UNCHANGED <<ledgerVars, hasherVars, refinerVars, typesVars, visionVars>>

ListVisionProviders ==
    /\ fcall' = [Call("list_vision_providers") EXCEPT
                    !.listed = sorted(DOMAIN VISION_PROVIDERS)]
    /\ UNCHANGED <<PROVIDERS, VISION_PROVIDERS>>
    /\ UNCHANGED <<ledgerVars, hasherVars, refinerVars, typesVars, visionVars>>

FactoryNext ==
    \/ \E name \in ProviderNames, class \in ProviderClasses :
          RegisterProvider(name, class)
    \/ \E name \in ProviderNames, class \in ProviderClasses :
          RegisterVisionProvider(name, class)
    \/ \E settings \in SettingsSet, constructor \in Constructors :
          Create(settings, constructor)
    \/ \E settings \in SettingsSet, constructor \in Constructors :
          CreateVisionLLM(settings, constructor)
    \/ ListProviders
    \/ ListVisionProviders

FactorySpec ==
    /\ Init
    /\ [][FactoryNext]_vars

\* ------------------------------------------------------------ the vision provider
\* AzureVisionLLM.chat_with_image of src/libs/llm/azure_vision_llm.py, one call
\* at a time: validation, preprocess_image, _get_image_base64, _call_api and
\* the reading of its response.

\* a text argument and whether validate_text accepts it
TextArgs == [valid : BOOLEAN]

\* an image argument: the data source of the ImageInput (base64, data, path,
\* or none of them) and whether validate_image accepts it
ImageArgs == [source : {"base64", "data", "path", "none"}, valid : BOOLEAN]

\* what _call_api returns when it returns: the shapes of a response
\* a response has a shape and may carry a model name and token usage
Responses ==
    [shape : {"complete", "no choices", "empty choices", "no message",
              "no content", "not a dict"},
     model : {NULL, "gpt-4o"}, usage : {NULL, "tokens"}]

\* no response yet
NoResponse == [shape |-> "none", model |-> NULL, usage |-> NULL]

\* self.deployment_name, the model of a response that names none
Deployment == "deployment"

\* ChatResponse(content, model, usage, raw_response)
ChatResponse(response) ==
    [content |-> "content",
     model |-> IF response.model = NULL THEN Deployment ELSE response.model,
     usage |-> response.usage,
     raw_response |-> response]

\* nothing returned
NoValue == [content |-> NULL, model |-> NULL, usage |-> NULL, raw_response |-> NoResponse]

\* a call that has not ended
Running == [exc |-> "none", value |-> NoValue, at |-> "none"]

\* what _call_api raises when it raises
ApiErrors == {"NotImplementedError", "ConnectionError", "AzureVisionLLMError"}

\* what the file system and PIL do to preprocess_image
PreprocessOutcomes == {"PIL missing", "within size", "resized",
                       "FileNotFoundError", "UnidentifiedImageError"}

Failed(e, stage) == [exc |-> e, value |-> NoValue, at |-> stage]

Wrapped_KeyErrorOnly(e, stage) ==
    IF e = "KeyError" THEN Failed("AzureVisionLLMError", stage) ELSE Failed(e, stage)

\* the except clauses of chat_with_image and of _get_image_base64
Wrapped(e, stage) == Failed("AzureVisionLLMError", stage)

\* response_data["choices"][0]["message"]["content"] and response_data.get
Parse(response) ==
    CASE response.shape = "complete" -> "none"
      [] response.shape \in {"no choices", "no message", "no content"} -> "KeyError"
      [] response.shape = "empty choices" -> "IndexError"
      [] OTHER -> "TypeError"

\* what preprocess_image does with an image, given its environment
Preprocessed(image, outcome) ==
    IF image.source \in {"base64", "none"} \/ outcome = "PIL missing"
    THEN [exc |-> "none", image |-> image]
    ELSE IF outcome = "FileNotFoundError"
         THEN IF image.source = "path"
              THEN [exc |-> "FileNotFoundError", image |-> NULL]
              ELSE [exc |-> "none", image |-> image]
    ELSE IF outcome = "UnidentifiedImageError"
         THEN [exc |-> "UnidentifiedImageError", image |-> NULL]
    ELSE IF outcome = "resized"
         THEN [exc |-> "none", image |-> [source |-> "data", valid |-> image.valid]]
    ELSE [exc |-> "none", image |-> image]

ChatWithImage(text, image) ==
    /\ vpc \in {"idle", "done"}
    /\ vpc' = "validate"
    /\ vtext' = text
    /\ vimage' = image
    /\ processed_image' = NULL
    /\ vresponse' = NoResponse
    /\ api_calls' = 0
    /\ vret' = Running
    /\ UNCHANGED <<ledgerVars, hasherVars, refinerVars, typesVars, factoryVars>>

Validate ==
    /\ vpc = "validate"
    /\ IF vtext.valid /\ vimage.valid
       THEN vpc' = "preprocess" /\ UNCHANGED vret
       ELSE vpc' = "done" /\ vret' = Failed("ValueError", "validate")
    /\ UNCHANGED <<vtext, vimage, processed_image, vresponse, api_calls>>
    /\ UNCHANGED <<ledgerVars, hasherVars, refinerVars, typesVars, factoryVars>>

Preprocess(outcome) ==
    /\ vpc = "preprocess"
    /\ LET r == Preprocessed(vimage, outcome)
       IN  IF r.exc = "none"
           THEN vpc' = "encode" /\ processed_image' = r.image /\ UNCHANGED vret
           ELSE /\ vpc' = "done"
                /\ vret' = Failed(r.exc, "preprocess")
                /\ UNCHANGED processed_image
    /\ UNCHANGED <<vtext, vimage, vresponse, api_calls>>
    /\ UNCHANGED <<ledgerVars, hasherVars, refinerVars, typesVars, factoryVars>>

GetImageBase64(readable) ==
    /\ vpc = "encode"
    /\ IF \/ processed_image.source = "none"
          \/ processed_image.source = "path" /\ ~readable
       THEN vpc' = "done" /\ vret' = Wrapped("Exception", "encode")
       ELSE vpc' = "call" /\ UNCHANGED vret
    /\ UNCHANGED <<vtext, vimage, processed_image, vresponse, api_calls>>
    /\ UNCHANGED <<ledgerVars, hasherVars, refinerVars, typesVars, factoryVars>>

CallApiReturns(response) ==
    /\ vpc = "call"
    /\ api_calls' = api_calls + 1
    /\ vresponse' = response
    /\ vpc' = "parse"
    /\ UNCHANGED <<vtext, vimage, processed_image, vret>>
    /\ UNCHANGED <<ledgerVars, hasherVars, refinerVars, typesVars, factoryVars>>

CallApiRaises(e) ==
    /\ vpc = "call"
    /\ api_calls' = api_calls + 1
    /\ vret' = Wrapped(e, "call")
    /\ vpc' = "done"
    /\ UNCHANGED <<vtext, vimage, processed_image, vresponse>>
    /\ UNCHANGED <<ledgerVars, hasherVars, refinerVars, typesVars, factoryVars>>

ParseResponse ==
    /\ vpc = "parse"
    /\ vret' = IF Parse(vresponse) = "none"
               THEN [exc |-> "none", value |-> ChatResponse(vresponse), at |-> "parse"]
               ELSE Wrapped(Parse(vresponse), "parse")
    /\ vpc' = "done"
    /\ UNCHANGED <<vtext, vimage, processed_image, vresponse, api_calls>>
    /\ UNCHANGED <<ledgerVars, hasherVars, refinerVars, typesVars, factoryVars>>

VisionNext ==
    \/ \E text \in TextArgs, image \in ImageArgs : ChatWithImage(text, image)
    \/ Validate
    \/ \E outcome \in PreprocessOutcomes : Preprocess(outcome)
    \/ \E readable \in BOOLEAN : GetImageBase64(readable)
    \/ \E response \in Responses : CallApiReturns(response)
    \/ \E e \in ApiErrors : CallApiRaises(e)
    \/ ParseResponse

VisionSpec ==
    /\ Init
    /\ [][VisionNext]_vars

\* ------------------------------------------------------------ the claims
HasEntry(t, h) == Matching(t, h) # {}
EntryOf(t, h) == t[Min(Matching(t, h))]
LastOp(h) == history[h][Len(history[h])][1]
CommitsOn(c, h, o) == Commit(c) /\ file_hash[c] = h /\ op[c] = o

\* C1: every should_skip(F) call returns True or False (it does not raise),
\* and returns True iff the ledger read by the call holds an entry for F whose
\* status is 'success'; with no entry for F it returns False.
C1_ShouldSkipIffSuccess ==
    [][\A c \in Callers, h \in Hashes :
         ShouldSkip(c, h) =>
            /\ ret'[c] \in {"True", "False"}
            /\ (ret'[c] = "True") <=>
                  (HasEntry(table, h) /\ EntryOf(table, h).status = "success")
            /\ (~HasEntry(table, h) => ret'[c] = "False")]_vars

\* (ret is "True" or "False" only after a should_skip call.)
\* One should_skip returned True for a hash with a success entry, another
\* returned False for a hash without an entry.
C1_Witness ==
    \E c, d \in Callers :
        /\ ret[c] = "True"
        /\ HasEntry(table, file_hash[c])
        /\ ret[d] = "False"
        /\ ~HasEntry(table, file_hash[d])

\* C2: after any sequence of completed mark_success / mark_failed calls,
\* should_skip(F) is true exactly when some mark call committed for F and the
\* last one committed for F was mark_success; and should_skip(F) turns from
\* false to true only by a mark_success(F) that commits.
C2_SkipIffLastMarkIsSuccess ==
    /\ [](\A h \in Hashes :
            should_skip(table, h) <=>
               (history[h] # <<>> /\ LastOp(h) = "mark_success"))
    /\ [][\A h \in Hashes :
            (~should_skip(table, h) /\ should_skip(table, h)') =>
               \E c \in Callers : CommitsOn(c, h, "mark_success")]_vars

\* success, then failed, then success again on one hash.
C2_Witness ==
    \E h \in Hashes :
        /\ Len(history[h]) = 3
        /\ history[h][1][1] = "mark_success"
        /\ history[h][2][1] = "mark_failed"
        /\ history[h][3][1] = "mark_success"
        /\ should_skip(table, h)

\* C3: when the two mark calls committed for a hash are both mark_success,
\* the ledger holds one entry for it, with status 'success', processed_at the
\* first call's timestamp and updated_at the second call's timestamp.
C3_SecondMarkSuccessIdempotent ==
    \A h \in Hashes :
        (/\ Len(history[h]) = 2
         /\ history[h][1][1] = "mark_success"
         /\ history[h][2][1] = "mark_success") =>
            /\ Cardinality(Matching(table, h)) = 1
            /\ EntryOf(table, h).status = "success"
            /\ EntryOf(table, h).processed_at = history[h][1][2]
            /\ EntryOf(table, h).updated_at = history[h][2][2]

C3_Witness ==
    \E h \in Hashes :
        /\ Len(history[h]) = 2
        /\ history[h][1][1] = "mark_success"
        /\ history[h][2][1] = "mark_success"
        /\ history[h][1][2] < history[h][2][2]
        /\ EntryOf(table, h).processed_at # EntryOf(table, h).updated_at

\* C4 as stated: once should_skip(F) is true it is true in every later state
\* reached by should_skip, mark_success and mark_failed calls.
C4_SuccessIsTerminal ==
    [][\A h \in Hashes : should_skip(table, h) => should_skip(table, h)']_vars

\* C4 as amended: once should_skip(F) is true it stays true until a
\* mark_failed(F) commits; should_skip, mark_success on any hash and
\* mark_failed on another hash never make it false.
C4_SuccessUntilMarkFailed ==
    [][\A h \in Hashes :
         (should_skip(table, h) /\ ~should_skip(table, h)') =>
            \E c \in Callers : CommitsOn(c, h, "mark_failed")]_vars

\* should_skip(F) returned True, a mark_failed committed on another hash
\* afterwards or before, and F is still skipped.
C4_Witness ==
    \E c \in Callers, g \in Hashes :
        /\ ret[c] = "True"
        /\ g # file_hash[c]
        /\ history[g] # <<>> /\ LastOp(g) = "mark_failed"
        /\ should_skip(table, file_hash[c])

\* C5: the existence check of a mark_* call and its insert/update are one
\* transaction: between a call's read and its write no other caller's commit
\* changes the entry of the call's hash.
C5_ReadAndWriteInOneTransaction ==
    [][\A c \in Callers :
         (pc[c] = "write" /\ pc'[c] = "write") =>
            FetchOne(table', file_hash[c]) = FetchOne(table, file_hash[c])]_vars

\* What the last committed call for a hash writes when it is the only call.
AloneRow(h) ==
    IF last[h].op = "mark_success"
    THEN SuccessRow(h, last[h].file_path, last[h].collection, 0)
    ELSE FailedRow(h, last[h].file_path, last[h].error_msg, 0)

\* C6: the entry of a hash has exactly the file_path, status, collection and
\* error_msg that the call committed last for that hash writes on its own.
C6_LastCommitWins ==
    \A h \in Hashes :
        last[h].op # "none" =>
            /\ HasEntry(table, h)
            /\ EntryOf(table, h).file_path = AloneRow(h).file_path
            /\ EntryOf(table, h).status = AloneRow(h).status
            /\ EntryOf(table, h).collection = AloneRow(h).collection
            /\ EntryOf(table, h).error_msg = AloneRow(h).error_msg

\* C7: the committed table, and the table inside every open transaction,
\* hold at most one row per file_hash.
C7_AtMostOneEntryPerHash ==
    /\ \A h \in Hashes : Cardinality(Matching(table, h)) <= 1
    /\ \A c \in Callers, h \in Hashes :
          pc[c] = "commit" => Cardinality(Matching(txn[c], h)) <= 1

\* Two callers raced to insert the same hash: one row, one RuntimeError.
C7_Witness ==
    \E c \in Callers, h \in Hashes :
        /\ ret[c] = "RuntimeError: UNIQUE constraint failed"
        /\ Len(history[h]) = 1
        /\ Cardinality(Matching(table, h)) = 1
        /\ Len(table) = 1

\* C8: processed_at of an entry is the timestamp of the first mark call
\* committed for its hash, and no later step changes it or removes the entry.
C8_ProcessedAtFixed ==
    /\ [](\A h \in Hashes :
            HasEntry(table, h) =>
               /\ history[h] # <<>>
               /\ EntryOf(table, h).processed_at = history[h][1][2])
    /\ [][\A h \in Hashes :
            HasEntry(table, h) =>
               /\ HasEntry(table', h)
               /\ EntryOf(table', h).processed_at = EntryOf(table, h).processed_at]_vars

\* Three committed calls on one hash, successes and failures mixed, with a
\* later timestamp than the first.
C8_Witness ==
    \E h \in Hashes :
        /\ Len(history[h]) = 3
        /\ \E i, j \in 1..3 : history[h][i][1] # history[h][j][1]
        /\ history[h][1][2] < history[h][3][2]
        /\ EntryOf(table, h).updated_at = history[h][3][2]

\* C9: a committed update of an existing entry leaves file_path, status,
\* collection, error_msg and updated_at as the call alone determines them
\* (the values the call inserts for a new hash).
C9_UpdateOverwritesAll ==
    [][\A c \in Callers :
         (Commit(c) /\ result[c] # <<>>) =>
            /\ EntryOf(table', file_hash[c]).file_path = NewRow(c).file_path
            /\ EntryOf(table', file_hash[c]).status = NewRow(c).status
            /\ EntryOf(table', file_hash[c]).collection = NewRow(c).collection
            /\ EntryOf(table', file_hash[c]).error_msg = NewRow(c).error_msg
            /\ EntryOf(table', file_hash[c]).updated_at = NewRow(c).updated_at]_vars

\* C10: every row has status 'success' or 'failed', and a non-NULL error_msg
\* iff its status is 'failed'.
C10_ErrorIffFailed ==
    \A i \in 1..Len(table) :
        /\ table[i].status \in {"success", "failed"}
        /\ (table[i].error_msg # NULL) <=> (table[i].status = "failed")

\* mark_success committed on an entry that was failed: the error is cleared.
C10_Witness ==
    \E h \in Hashes :
        /\ Len(history[h]) >= 2
        /\ history[h][Len(history[h]) - 1][1] = "mark_failed"
        /\ LastOp(h) = "mark_success"
        /\ EntryOf(table, h).error_msg = NULL
        /\ EntryOf(table, h).status = "success"

RuntimeErrors ==
    {"RuntimeError: UNIQUE constraint failed", "RuntimeError: database is locked",
     "RuntimeError: commit failed"}

\* C11: a mark_* call that the store rejects ends with RuntimeError and has
\* changed neither the committed table nor what is recorded as committed; and
\* the committed table changes only by the commit of a whole call, so a call
\* that fails or is cancelled at any point leaves nothing of its write visible.
C11_RejectedWriteLeavesLedger ==
    /\ [][\A c \in Callers :
            (pc[c] # "idle" /\ pc'[c] = "idle" /\ ret'[c] # "None") =>
               /\ ret'[c] \in RuntimeErrors \cup {"cancelled"}
               /\ (~Abort(c) => ret'[c] \in RuntimeErrors)
               /\ table' = table
               /\ history' = history
               /\ c \notin lock']_vars
    /\ [][table' # table =>
            \E c \in Callers : Commit(c) /\ table' = txn[c] /\ ret'[c] = "None"]_vars

\* A commit was rejected after the call's UPDATE on an existing entry, and the
\* entry is the one written before the call.
C11_Witness ==
    \E c \in Callers, h \in Hashes :
        /\ ret[c] = "RuntimeError: commit failed"
        /\ calls = 2
        /\ Len(history[h]) = 1
        /\ lock = {}
        /\ HasEntry(table, h)
        /\ EntryOf(table, h).updated_at = history[h][1][2]
        /\ \A g \in Hashes \ {h} : ~HasEntry(table, g)

\* C12: no step removes an entry: the set of hashes with an entry, and the
\* number of rows, only grow.
C12_NeverDeleted ==
    [][/\ \A h \in Hashes : HasEntry(table, h) => HasEntry(table', h)
       /\ Len(table') >= Len(table)]_vars

\* Both hashes have an entry and one of them was marked failed after it was
\* created.
C12_Witness ==
    \E h \in Hashes :
        /\ Len(table) = 2
        /\ Len(history[h]) = 2
        /\ LastOp(h) = "mark_failed"
        /\ HasEntry(table, h)

\* C13: when mark_success was the last call committed for F1 and no call was
\* committed for F2, should_skip(F1) is true and should_skip(F2) is false; and
\* a committing mark_* call on one hash leaves the entry (hence should_skip)
\* of every other hash unchanged.
C13_OtherHashesUntouched ==
    /\ [](\A h, g \in Hashes :
            (h # g /\ history[h] # <<>> /\ LastOp(h) = "mark_success"
                   /\ history[g] = <<>>) =>
               (should_skip(table, h) /\ ~should_skip(table, g)))
    /\ [][\A c \in Callers, g \in Hashes :
            (Commit(c) /\ g # file_hash[c]) =>
               /\ FetchOne(table', g) = FetchOne(table, g)
               /\ should_skip(table', g) = should_skip(table, g)]_vars

\* Second run: should_skip(F1) returned True after mark_success(F1), and
\* should_skip(F2) returned False for the edited file's hash.
C13_Witness ==
    \E c, d \in Callers :
        /\ file_hash[c] # file_hash[d]
        /\ ret[c] = "True"
        /\ history[file_hash[c]] # <<>>
        /\ LastOp(file_hash[c]) = "mark_success"
        /\ ret[d] = "False"
        /\ history[file_hash[d]] = <<>>

\* C14: compute_sha256 raises FileNotFoundError when the path does not exist,
\* IOError when it exists but is not a regular file or cannot be opened, and
\* IOError when a read fails; it returns a fingerprint only for a regular file
\* read to its end, and what it raises carries no fingerprint.
C14_HasherErrors ==
    /\ [](\A r \in Runs :
            hpc[r] \in {"returned", "raised"} =>
               /\ kind[r] = "missing" =>
                     (hpc[r] = "raised" /\ hret[r].exc = "FileNotFoundError")
               /\ kind[r] \in {"dir", "denied"} =>
                     (hpc[r] = "raised" /\ hret[r].exc = "IOError")
               /\ hpc[r] = "returned" =>
                     /\ hret[r].exc = "none"
                     /\ hret[r].value # NoDigest
                     /\ kind[r] = "file"
                     /\ offset[r] = Len(content[r])
               /\ hpc[r] = "raised" =>
                     /\ hret[r].exc \in {"FileNotFoundError", "IOError"}
                     /\ hret[r].value = NoDigest)
    /\ [][\A r \in Runs :
            ReadFails(r) => (hpc'[r] = "raised" /\ hret'[r].exc = "IOError"
                             /\ hret'[r].value = NoDigest)]_vars

\* One run ended with FileNotFoundError on a missing path, the other with
\* IOError from a read that failed after the first chunk of a regular file.
C14_Witness ==
    \E r, q \in Runs :
        /\ kind[r] = "missing" /\ hret[r].exc = "FileNotFoundError"
        /\ kind[q] = "file" /\ hret[q].exc = "IOError"
        /\ offset[q] > 0 /\ offset[q] < Len(content[q])

\* C15: the fingerprint returned for a file is the digest of its bytes taken
\* at once, whatever the path and however f.read() cut them into chunks; two
\* runs on files of equal bytes return equal fingerprints, and on files that
\* differ in a byte different fingerprints (SHA-256 taken as collision-free).
C15_FingerprintOfBytesOnly ==
    /\ \A r \in Runs :
          hpc[r] = "returned" =>
             hret[r].value = hexdigest(sha256_update(sha256_new, content[r]))
    /\ \A r, q \in Runs :
          (hpc[r] = "returned" /\ hpc[q] = "returned") =>
             ((content[r] = content[q]) <=> (hret[r].value = hret[q].value))

\* Two paths, the same bytes, longer than a chunk and not a whole number of
\* chunks: both runs returned.
C15_Witness ==
    /\ PathOf("x") # PathOf("y")
    /\ hpc["x"] = "returned" /\ hpc["y"] = "returned"
    /\ content["x"] = content["y"]
    /\ Len(content["x"]) > ChunkSize
    /\ Len(content["x"]) % ChunkSize # 0
    /\ hret["x"].value = hret["y"].value

\* ------------------------------------------------------------ refinement claims
\* the invocation of unit u failed: an error, a timeout, or an output the
\* sanity checks reject (empty, or below the minimum-retention ratio)
EnhancementFailed(u, r) ==
    \/ r.kind \in {"error", "timeout"}
    \/ /\ r.kind = "text"
       /\ \/ r.text = <<>>
          \/ Len(r.text) * MinRetentionDen < Len(u.text) * MinRetentionNum

Refined == 1..Len(outcomes)

\* C16: a unit whose enhancement invocation failed (error, timeout, rejected
\* output) gets the rule-based result tagged fallback with a non-empty
\* fallback_reason; the step that meets the failure appends that outcome and
\* leaves the batch running, and the batch raises only for a malformed unit.
C16_FailedEnhancementFallsBack ==
    /\ [](\A i \in Refined :
            EnhancementFailed(units[i], invocations[i]) =>
                /\ outcomes[i].strategy_used = "fallback"
                /\ outcomes[i].refined_text = RuleBasedRefine(units[i].text)
                /\ "fallback_reason" \in DOMAIN outcomes[i]
                /\ outcomes[i].fallback_reason # <<>>)
    /\ [](rpc = "raised" => ~WellFormed(units[idx + 1]))
    /\ [][(/\ Len(invocations') = Len(invocations) + 1
           /\ EnhancementFailed(units[idx + 1], invocations'[idx + 1]))
          => /\ rpc' = "running"
             /\ Len(outcomes') = Len(outcomes) + 1]_vars

C16_Witness ==
    /\ rpc = "done"
    /\ Len(outcomes) = 2
    /\ invocations[1].kind = "timeout"
    /\ invocations[2] = InvocationText(<<"w">>)
    /\ units[2].text = NoisyText
    /\ outcomes[2].fallback_reason = <<"output below retention threshold">>

EnhancedUnits == {i \in Refined : outcomes[i].strategy_used = "enhanced"}

\* C17: a batch of N units that returns gives exactly N outcomes, the i-th
\* being the outcome of the i-th unit, with enhanced_count = K and
\* fallback_count = N - K for K the number of outcomes tagged enhanced, so the
\* two counters add up to N.
C17_BatchOutcomesAndCounters ==
    rpc = "done" =>
        /\ Len(outcomes) = Len(units)
        /\ \A i \in 1..Len(units) : outcomes[i].unit = units[i]
        /\ enhanced_count = Cardinality(EnhancedUnits)
        /\ fallback_count = Len(units) - Cardinality(EnhancedUnits)
        /\ enhanced_count + fallback_count = Len(units)

C17_Witness ==
    /\ rpc = "done"
    /\ Len(units) = 2
    /\ units[1] # units[2]
    /\ enhanced_count = 1
    /\ fallback_count = 1

\* C18: with use_enhancement false no unit's refinement invokes the
\* enhancement capability; every outcome is the rule-based result tagged
\* fallback with fallback_reason "enhancement disabled"; and two units with
\* the same text get the same refined text, tag and reason whatever else
\* differs between them.
C18_DisabledNeverInvokes ==
    ~use_enhancement =>
        /\ \A i \in Refined :
              /\ invocations[i].kind = "none"
              /\ outcomes[i].strategy_used = "fallback"
              /\ outcomes[i].fallback_reason = <<"enhancement disabled">>
              /\ outcomes[i].refined_text = RuleBasedRefine(units[i].text)
        /\ \A i, j \in Refined :
              units[i].text = units[j].text =>
                  /\ outcomes[i].refined_text = outcomes[j].refined_text
                  /\ outcomes[i].strategy_used = outcomes[j].strategy_used
                  /\ outcomes[i].fallback_reason = outcomes[j].fallback_reason

C18_Witness ==
    /\ ~use_enhancement
    /\ rpc = "done"
    /\ Len(outcomes) = 2
    /\ units[1].text = NoisyText
    /\ units[2].text = NoisyText
    /\ units[1].source_path # units[2].source_path
    /\ outcomes[1].refined_text = <<"h", "w">>

\* C19: every outcome is tagged enhanced or fallback and carries a
\* fallback_reason exactly when it is tagged fallback; an outcome tagged
\* enhanced holds the text its unit's invocation returned, and that text passed
\* the sanity checks (non-empty, not below the retention ratio).
C19_OutcomeWellTagged ==
    \A i \in Refined :
        /\ outcomes[i].strategy_used \in {"enhanced", "fallback"}
        /\ ("fallback_reason" \in DOMAIN outcomes[i])
              <=> (outcomes[i].strategy_used = "fallback")
        /\ outcomes[i].strategy_used = "enhanced" =>
              /\ invocations[i].kind = "text"
              /\ ~EnhancementFailed(units[i], invocations[i])
              /\ outcomes[i].refined_text = invocations[i].text

C19_Witness ==
    /\ Len(outcomes) = 2
    /\ units[1].text = CleanText
    /\ units[2].text = NoisyText
    /\ invocations[1] = InvocationText(<<"w">>)
    /\ invocations[2] = InvocationText(<<"w">>)
    /\ outcomes[1].strategy_used = "enhanced"
    /\ outcomes[2].strategy_used = "fallback"

\* C20: in a batch the outcome of a unit is determined by that unit and by
\* what its own invocation gave: it is refine's result for those two, two
\* units with equal unit and equal invocation result have equal outcomes
\* whatever their siblings met, and refining a later unit changes no outcome
\* already produced.
C20_UnitsRefinedIndependently ==
    /\ [](\A i \in Refined : outcomes[i] = Refine(units[i], invocations[i]))
    /\ [](\A i, j \in Refined :
            (units[i] = units[j] /\ invocations[i] = invocations[j])
                => outcomes[i] = outcomes[j])
    /\ [][\A i \in Refined : outcomes'[i] = outcomes[i]]_vars

C20_Witness ==
    /\ Len(outcomes) = 2
    /\ invocations[1] = InvocationError("e1")
    /\ outcomes[1].strategy_used = "fallback"
    /\ invocations[2] = InvocationText(<<"h", "w", "w">>)
    /\ outcomes[2].strategy_used = "enhanced"

\* ------------------------------------------------------------ claims on the types
MetadataOf(o) == dicts[o.fields["metadata"]]
Constructions == {"__init__", "from_dict", "from_chunk"}

\* C21: a construction of a Document, Chunk or ChunkRecord whose metadata has
\* no 'source_path' raises ValueError and adds no object, through the
\* constructor, through from_dict (the data naming fields of the class, its
\* metadata lacking the key or left out) and through from_chunk (the chunk's
\* metadata having lost the key); and every step that adds an object adds
\* one whose metadata has 'source_path'.
C21_SourcePathRequired ==
    /\ []((/\ texc.op \in Constructions
           /\ texc.bound
           /\ "source_path" \notin texc.keys) => texc.exc = "ValueError")
    /\ [][texc'.exc # "none" => objects' = objects]_vars
    /\ [][Len(objects') > Len(objects) =>
            "source_path"
                \in DOMAIN dicts'[objects'[Len(objects')].fields["metadata"]]]_vars

C21_Witness ==
    /\ texc.op = "from_chunk"
    /\ texc.exc = "ValueError"
    /\ Len(objects) = 1
    /\ objects[1].cls = "Chunk"
    /\ "source_path" \notin DOMAIN MetadataOf(objects[1])

\* C22: every Text Unit (Chunk) that exists has a text that is non-empty
\* after normalization: a Chunk with an empty or whitespace-only text is
\* rejected, so none is ever there to flow into refinement.
C22_ChunkTextNonEmpty ==
    \A i \in 1..Len(objects) :
        objects[i].cls = "Chunk" => Normalize(objects[i].fields["text"]) # <<>>

\* x and y have the same value in every field, the metadata compared as
\* mappings on the heap ds
SameValue(x, y, ds) ==
    /\ x.cls = y.cls
    /\ \A f \in Fields(x.cls) \ {"metadata"} : x.fields[f] = y.fields[f]
    /\ ds[x.fields["metadata"]] = ds[y.fields["metadata"]]

\* C23: from_dict(to_dict(x)) of the class of x, for x a valid Document,
\* Chunk or ChunkRecord (its metadata has 'source_path'), returns an object
\* with the value of x in every field: id, text, metadata, and the offsets
\* and source_ref or the dense and sparse vectors.
C23_RoundTrip ==
    [][(/\ texc.op = "to_dict"
        /\ "source_path" \in DOMAIN MetadataOf(objects[texc.arg]))
       => \A d \in 1..Len(datas) :
             FromDict(objects[texc.arg].cls, d) =>
                /\ texc'.exc = "none"
                /\ Len(objects') = Len(objects) + 1
                /\ SameValue(objects[texc.arg], objects'[Len(objects')], dicts')
      ]_vars

C23_Witness ==
    /\ texc.op = "from_dict"
    /\ texc.exc = "none"
    /\ Len(objects) = 2
    /\ objects[1].cls = "ChunkRecord"
    /\ objects[2].cls = "ChunkRecord"
    /\ objects[1].fields["metadata"] # objects[2].fields["metadata"]
    /\ objects[2].fields["metadata"] = datas[1]["metadata"]
    /\ SameValue(objects[1], objects[2], dicts)
    /\ DOMAIN MetadataOf(objects[1]) = MetaKeys

\* from_chunk has just returned a record: the chunk it was given and the
\* record it made
FromChunkReturned == texc.op = "from_chunk" /\ texc.exc = "none"
GivenChunk == objects[texc.arg]
MadeRecord == objects[Len(objects)]

\* C24: the record from_chunk returns has the chunk's id and text, a metadata
\* mapping equal to the chunk's and the vectors it was given; its metadata
\* is another dict than the chunk's, so the caller's adding, removing or
\* reassigning a key in either one leaves the other as it was.
C24_FromChunkCopiesMetadata ==
    /\ [](FromChunkReturned =>
            /\ MadeRecord.cls = "ChunkRecord"
            /\ MadeRecord.fields["id"] = GivenChunk.fields["id"]
            /\ MadeRecord.fields["text"] = GivenChunk.fields["text"]
            /\ MetadataOf(MadeRecord) = MetadataOf(GivenChunk)
            /\ MadeRecord.fields["metadata"] # GivenChunk.fields["metadata"])
    /\ [][texc'.op = "from_chunk" /\ texc'.exc = "none" =>
            \A i \in 1..Len(objects), opts \in Options("ChunkRecord") :
                FromChunk(i, opts) =>
                    /\ objects'[Len(objects')].fields["dense_vector"]
                          = opts["dense_vector"]
                    /\ objects'[Len(objects')].fields["sparse_vector"]
                          = opts["sparse_vector"]]_vars
    /\ [][FromChunkReturned /\ texc'.op = "caller" =>
            \/ dicts'[MadeRecord.fields["metadata"]] = MetadataOf(MadeRecord)
            \/ dicts'[GivenChunk.fields["metadata"]] = MetadataOf(GivenChunk)]_vars

C24_Witness ==
    /\ texc.op = "caller"
    /\ Len(objects) = 2
    /\ objects[1].cls = "Chunk"
    /\ objects[2].cls = "ChunkRecord"
    /\ objects[1].fields["metadata"] # objects[2].fields["metadata"]
    /\ MetadataOf(objects[1]) = [source_path |-> "data/test.pdf", key |-> "original"]
    /\ MetadataOf(objects[2]) = [source_path |-> "data/test.pdf", key |-> "modified"]

\* ------------------------------------------------------------ the ledger under a race
\* C25: mark_success and mark_failed are upserts under a race too: of two
\* callers marking a fingerprint that has no entry yet, neither is refused
\* because the other inserted the entry first.
C25_RacingUpsertsBothComplete ==
    \A c \in Callers : ret[c] # "RuntimeError: UNIQUE constraint failed"

\* C26: in every ledger state, those reached by interleaved calls included,
\* every entry has processed_at <= updated_at.
C26_FirstSeenNotAfterLastUpdated ==
    \A i \in 1..Len(table) : table[i].processed_at <= table[i].updated_at

\* ------------------------------------------------------------ claims on the factory

\* two names that differ in the case of their letters only
SameIgnoringCase(a, b) ==
    \E k \in DOMAIN Spellings : a \in Spellings[k] /\ b \in Spellings[k]

RegisteredFor(registry, value) ==
    \E k \in DOMAIN registry : SameIgnoringCase(k, value)

\* C27: LLMFactory.create raises ValueError when the configured provider is
\* not in the text registry and AttributeError when settings.llm.provider is
\* missing; it calls a constructor only when the provider is registered, the
\* registered one, and a failure of the constructor is a RuntimeError.
C27_CreateErrors ==
    fcall.op = "create" =>
       /\ (fcall.llm \in ProviderNames /\ ~RegisteredFor(PROVIDERS, fcall.llm))
             => fcall.exc = "ValueError"
       /\ fcall.llm \notin ProviderNames => fcall.exc = "AttributeError"
       /\ fcall.called # "none" =>
             \E k \in DOMAIN PROVIDERS :
                SameIgnoringCase(k, fcall.llm) /\ fcall.called = PROVIDERS[k]
       /\ (fcall.called # "none" /\ fcall.value = "none")
             => fcall.exc = "RuntimeError"

\* C28: create instantiates the class most recently registered under
\* lower(settings.llm.provider): an accepted register_provider(name, class)
\* makes create return class for every spelling of name and changes create
\* for no other name, a rejected one (ValueError, class not a BaseLLM
\* subclass) leaves the registry as it was, no other call changes the
\* registry, and a create that returns has instantiated the registered class.
C28_CreateUsesLatestRegistration ==
    /\ []((fcall.op = "create" /\ fcall.exc = "none") =>
             \E k \in DOMAIN PROVIDERS :
                SameIgnoringCase(k, fcall.llm) /\ fcall.value = PROVIDERS[k])
    /\ [][(fcall'.op = "register_provider" /\ fcall'.exc = "none") =>
             /\ issubclass(fcall'.class, BaseLLM)
             /\ \A s \in SettingsSet :
                   IF s.llm \in ProviderNames /\ SameIgnoringCase(s.llm, fcall'.name)
                   THEN create(PROVIDERS', s, "ok").value = fcall'.class
                   ELSE create(PROVIDERS', s, "ok") = create(PROVIDERS, s, "ok")]_vars
    /\ [][(fcall'.op = "register_provider" /\ fcall'.exc # "none") =>
             /\ fcall'.exc = "ValueError"
             /\ ~issubclass(fcall'.class, BaseLLM)
             /\ PROVIDERS' = PROVIDERS]_vars
    /\ [][fcall'.op # "register_provider" => PROVIDERS' = PROVIDERS]_vars

\* the registration under "OpenAI" of a second class has replaced the first,
\* and create for the configured name "openai" instantiated it
C28_Witness ==
    /\ fcall.op = "create"
    /\ fcall.llm = "openai"
    /\ fcall.value = "OllamaLLM"
    /\ DOMAIN PROVIDERS = {"openai", "azure"}
    /\ PROVIDERS["azure"] = "OpenAILLM"

\* C29: the two registries are separate: register_vision_provider changes
\* neither list_providers nor create, register_provider changes neither
\* list_vision_providers nor create_vision_llm, and create_vision_llm takes
\* the provider name from settings.vision_llm.provider when it is there and
\* from settings.llm.provider only when it is not.
C29_RegistriesSeparate ==
    /\ [][fcall'.op = "register_vision_provider" =>
             /\ sorted(DOMAIN PROVIDERS') = sorted(DOMAIN PROVIDERS)
             /\ \A s \in SettingsSet, c \in Constructors :
                   create(PROVIDERS', s, c) = create(PROVIDERS, s, c)]_vars
    /\ [][fcall'.op = "register_provider" =>
             /\ sorted(DOMAIN VISION_PROVIDERS') = sorted(DOMAIN VISION_PROVIDERS)
             /\ \A s \in SettingsSet, c \in Constructors :
                   create_vision_llm(VISION_PROVIDERS', s, c)
                      = create_vision_llm(VISION_PROVIDERS, s, c)]_vars
    /\ [](fcall.op = "create_vision_llm" =>
             LET configured == IF fcall.vision_llm # Missing
                               THEN fcall.vision_llm ELSE fcall.llm
             IN  /\ fcall.exc = "none" =>
                       \E k \in DOMAIN VISION_PROVIDERS :
                          /\ SameIgnoringCase(k, configured)
                          /\ fcall.value = VISION_PROVIDERS[k]
                 /\ (/\ configured \in ProviderNames
                     /\ ~RegisteredFor(VISION_PROVIDERS, configured))
                       => fcall.exc = "ValueError"
                 /\ configured \notin ProviderNames => fcall.exc = "ValueError")

\* both sections name a provider, both names are in the vision registry under
\* different classes, the text registry is not empty, and the call has
\* returned the class of settings.vision_llm.provider
C29_Witness ==
    /\ fcall.op = "create_vision_llm"
    /\ fcall.vision_llm = "azure"
    /\ fcall.llm = "OpenAI"
    /\ PROVIDERS # <<>>
    /\ DOMAIN VISION_PROVIDERS = {"openai", "azure"}
    /\ VISION_PROVIDERS["openai"] = "OllamaVisionLLM"
    /\ fcall.value = "AzureVisionLLM"

\* ------------------------------------------------------------ claims on the vision provider

====
